---- MODULE Spec2Model ----
(***************************************************************************)
(* A model of priv/sqlite3_drv.c, the linked-in driver of erlang-sqlite3.  *)
(*                                                                         *)
(* The driver receives a command through control, prepares the SQL text,   *)
(* steps the statement while encoding every row into an ErlDrvTermData     *)
(* buffer (sql_exec_async), hands the buffer to driver_output_term         *)
(* (ready_async) and releases what the task owns (sql_free_async).         *)
(*                                                                         *)
(* The SQLite engine and the emulator's driver_output_term are outside the *)
(* file: the engine is a source of inputs (prepare result, column count,   *)
(* step results, cells, error message, last insert rowid) and the          *)
(* transport is the stack machine the erl_driver manual describes.         *)
(***************************************************************************)
EXTENDS Integers, Sequences, FiniteSets, TLC

(***************************************************************************)
(* Bounds of the model.                                                    *)
(***************************************************************************)
\* the largest column count of a prepared statement
MaxCols == 2
\* the largest number of cells (rows * columns) a statement returns
MaxCells == 3
\* the number of commands delivered to control in one behaviour
MaxCmds == 2

(***************************************************************************)
(* Program constants.                                                      *)
(***************************************************************************)
CMD_SQL_EXEC == 2
SQLITE_OK    == 0
SQLITE_ERROR == 1
SQLITE_BUSY  == 5
SQLITE_MISUSE == 21
SQLITE_ROW   == 100
SQLITE_DONE  == 101
DRV_KEY      == 42
ERROR_SPEC_WORDS == 7

NULL == 0

(***************************************************************************)
(* 64-bit machine words that carry integers.  TLC's integers are narrower  *)
(* than 64 bits, so a 64-bit value is four 16-bit limbs, least significant *)
(* first; conversions act on the limbs exactly as the C conversions act on *)
(* the bits.                                                               *)
(***************************************************************************)
Limb == 2^16

\* a small non-negative C int widened to a 64-bit word
FromInt(n) == << n % Limb, (n \div Limb) % Limb, 0, 0 >>

\* (int) of a 64-bit value, then widened again: the low 32 bits, sign-extended
SignExtend32(v) ==
  LET s == IF v[2] >= Limb \div 2 THEN Limb - 1 ELSE 0
  IN  << v[1], v[2], s, s >>

\* sqlite3_column_int: the engine's 64-bit cell value converted to int
sqlite3_column_int(v) == SignExtend32(v)

\* long long stored into an ErlDrvTermData (64-bit on the modelled build)
ToTermData(v) == v

(***************************************************************************)
(* Words of an ErlDrvTermData buffer.                                      *)
(***************************************************************************)
Tag(t)       == [w |-> "tag", tag |-> t]
Atom(a)      == [w |-> "atom", name |-> a]
PortW(p)     == [w |-> "port", port |-> p]
IntW(v)      == [w |-> "sint", limbs |-> v]
Num(n)       == [w |-> "num", n |-> n]
CStr(s)      == [w |-> "cstr", s |-> s]
FPtr(b, i)   == [w |-> "fptr", blk |-> b, idx |-> i]
BPtr(b)      == [w |-> "bptr", blk |-> b]
Uninit       == [w |-> "uninit"]

driver_mk_atom(name) == Atom(name)
driver_mk_port(p)    == PortW(p)

(***************************************************************************)
(* The heap.  A block is named by its serial number within the current     *)
(* command; NULL is 0.  A released block stays in the sequence, marked, so *)
(* that releases can be counted.                                           *)
(***************************************************************************)
Block(kind, data) == [kind |-> kind, live |-> TRUE, frees |-> 0, data |-> data]

\* malloc / calloc / driver_alloc_binary / the engine's statement allocation
Alloc(h, kind, data) == [heap |-> Append(h, Block(kind, data)), p |-> Len(h) + 1]

\* free / driver_free_binary / sqlite3_finalize of block p
Release(h, p) == [h EXCEPT ![p].live = FALSE, ![p].frees = @ + 1]

\* free(p): free(NULL) does nothing
Free(h, p) == IF p = NULL THEN h ELSE Release(h, p)

\* n words: the first Len(data) of them copied, the rest indeterminate
Resize(data, n) == [i \in 1..n |-> IF i <= Len(data) THEN data[i] ELSE Uninit]

\* realloc(p, n words): realloc(NULL, n) allocates; otherwise the block grows
\* in place or is moved to a new block, the old one being released
Realloc(h, p, n, kind, moved) ==
  IF p = NULL THEN Alloc(h, kind, Resize(<< >>, n))
  ELSE IF moved
       THEN Alloc(Release(h, p), kind, Resize(h[p].data, n))
       ELSE [heap |-> [h EXCEPT ![p].data = Resize(@, n)], p |-> p]

\* p[k] = v with C's indices from 0
Store(h, p, k, v) == [h EXCEPT ![p].data[k + 1] = v]

(***************************************************************************)
(* The engine's side: what the commands and the database can be.           *)
(***************************************************************************)
\* SQL texts as ASCII codes
SqlSelect == << 83, 69, 76, 69, 67, 84 >>          \* SELECT
SqlSelec  == << 83, 69, 76, 69, 67 >>              \* SELEC   (does not compile)
SqlInsert == << 73, 78, 83, 69, 82, 84 >>          \* INSERT
SqlInsMix == << 120, 73, 110, 83, 101, 82, 116 >>  \* xInSeRt
SqlCreate == << 67, 82, 69, 65, 84, 69 >>          \* CREATE
SqlUpsert == << 85, 80, 83, 69, 82, 84 >>          \* UPSERT  (no "INSERT" in it)
SqlEmpty  == << >>                                 \* compiles to no statement

\* what sqlite3_prepare_v2 makes of a text: its result code, whether a
\* statement object comes back, and the statement's column count
Statements ==
       { [sql |-> SqlSelec, result |-> SQLITE_ERROR, stmt |-> FALSE, cc |-> 0],
         [sql |-> SqlEmpty, result |-> SQLITE_OK,    stmt |-> FALSE, cc |-> 0] }
  \cup { [sql |-> s, result |-> SQLITE_OK, stmt |-> TRUE, cc |-> 0] :
           s \in { SqlInsert, SqlInsMix, SqlCreate, SqlUpsert } }
  \cup { [sql |-> SqlSelect, result |-> SQLITE_OK, stmt |-> TRUE, cc |-> n] :
           n \in 1..MaxCols }

\* the command numbers control is called with
Commands == { CMD_SQL_EXEC - 1, CMD_SQL_EXEC, CMD_SQL_EXEC + 1 }

\* cells a row can hold: sqlite3_column_type and the value behind it
I64_42  == FromInt(42)
I64_Big == << 5, 0, 1, 0 >>                        \* 2^32 + 5
Cells ==
  { [type |-> "SQLITE_INTEGER", int |-> I64_42],
    [type |-> "SQLITE_INTEGER", int |-> I64_Big],
    [type |-> "SQLITE_FLOAT",   double |-> "1.5"],
    [type |-> "SQLITE_TEXT",    bytes |-> << >>],
    [type |-> "SQLITE_BLOB",    bytes |-> << 65, 0 >>],
    [type |-> "SQLITE_NULL"] }

\* sqlite3_column_name(statement, i)
ColumnName(i) == << "col1", "col2", "col3", "col4" >>[i + 1]

\* messages sqlite3_errmsg can return after a failure, and after a success
ErrMsgs == { "syntax error", "constraint failed" }
NotAnError == "not an error"
BusyMsg == "SQLite3 database is busy"

\* rowids the engine can report
RowIds == { FromInt(1), << 7, 0, 1, 0 >> }

\* the results that end the stepping of a statement
EndCodes == { SQLITE_DONE, SQLITE_BUSY, SQLITE_ERROR }

(***************************************************************************)
(* State.                                                                  *)
(***************************************************************************)
VARIABLES
  drv,     \* sqlite3_drv_t: port, db, key, async_handle
  db,      \* the open database: errmsg, last_insert_rowid
  heap,    \* the blocks allocated since control was entered
  leaked,  \* number of blocks earlier commands left allocated
  pc,      \* where the current control call is
  cmd,     \* the command being handled: command number and SQL text
  acmd,    \* sql_exec's async_command pointer, NULL when there is no task
  loc,     \* the locals of sql_exec_async
  steps,   \* the sqlite3_step calls of the current task: result and row
  sent,    \* the terms handed to driver_output_term in this control call
  ncmds    \* commands received so far

vars == << drv, db, heap, leaked, pc, cmd, acmd, loc, steps, sent, ncmds >>

Port == "port"

NoCmd == [command |-> 0, buf |-> << >>]

NoLocals ==
  [ dataset |-> NULL, term_count |-> 0, row_count |-> 0, next_row |-> 0,
    column_count |-> 0, floats |-> NULL, float_count |-> 0,
    binaries |-> NULL, binaries_count |-> 0 ]

\* start: the state control finds (async_handle is not set by start)
Init ==
  /\ drv = [ port |-> Port, db |-> "db", key |-> DRV_KEY,
             async_handle |-> [set |-> FALSE, v |-> 0] ]
  /\ db = [ errmsg |-> NotAnError, last_insert_rowid |-> FromInt(0) ]
  /\ heap = << >>
  /\ leaked = 0
  /\ pc = "idle"
  /\ cmd = NoCmd
  /\ acmd = NULL
  /\ loc = NoLocals
  /\ steps = << >>
  /\ sent = << >>
  /\ ncmds = 0

(***************************************************************************)
(* The transport: driver_output_term copies what the words point at while  *)
(* it runs.  A float word whose block has been released is a dangling      *)
(* read: the old bytes may still be there or not.                          *)
(***************************************************************************)
FVal(v) == [w |-> "fval", double |-> v]
BVal(b) == [w |-> "bval", bytes |-> b]

Deref(h, word, stale) ==
  IF word.w = "fptr"
    THEN IF h[word.blk].live \/ stale
           THEN FVal(h[word.blk].data[word.idx + 1])
           ELSE FVal("garbage")
  ELSE IF word.w = "bptr"
    THEN BVal(h[word.blk].data.orig_bytes)
  ELSE word

\* driver_output_term(port, data, n): what the emulator is handed, n words
\* with what they point at.  Whether it can build a term from them is
\* WellFormed below.
driver_output_term(port, words, n, h, stale) ==
  [ port |-> port, n |-> n,
    words |-> [i \in 1..n |-> Deref(h, words[i], stale)] ]

(***************************************************************************)
(* return_error: a fresh 7-word buffer holding {error, Message}.           *)
(***************************************************************************)
ErrorWords(error) ==
  << Tag("ERL_DRV_ATOM"), driver_mk_atom("error"),
     Tag("ERL_DRV_STRING"), CStr(error), Num(Len(error)),
     Tag("ERL_DRV_TUPLE"), Num(2) >>

return_error(h, error) ==
  LET a == Alloc(h, "dataset", [i \in 1..ERROR_SPEC_WORDS |-> Num(0)])
  IN  [ heap |-> [a.heap EXCEPT ![a.p].data = ErrorWords(error)],
        spec |-> a.p, terms_count |-> ERROR_SPEC_WORDS ]

(***************************************************************************)
(* control: what every command starts from.                                *)
(***************************************************************************)
LiveCount(h) == Cardinality({ i \in DOMAIN h : h[i].live })

Enter(command, buf) ==
  /\ pc = "idle"
  /\ ncmds < MaxCmds
  /\ ncmds' = ncmds + 1
  /\ leaked' = leaked + LiveCount(heap)
  /\ cmd' = [command |-> command, buf |-> buf]
  /\ steps' = << >>
  /\ loc' = NoLocals

\* (mutant) the atom spelled as the word is
UnknownWords_Respelled ==
  << Tag("ERL_DRV_ATOM"), driver_mk_atom("error"),
     Tag("ERL_DRV_ATOM"), driver_mk_atom("unknown_command"),
     Tag("ERL_DRV_TUPLE"), Num(2) >>

\* unknown: {error, uknown_command} from a buffer on the stack
UnknownWords ==
  << Tag("ERL_DRV_ATOM"), driver_mk_atom("error"),
     Tag("ERL_DRV_ATOM"), driver_mk_atom("uknown_command"),
     Tag("ERL_DRV_TUPLE"), Num(2) >>

Unknown ==
  \E command \in Commands, buf \in { SqlEmpty, SqlSelect } :
    /\ command /= CMD_SQL_EXEC
    /\ Enter(command, buf)
    /\ heap' = << >>
    /\ sent' = << driver_output_term(drv.port, UnknownWords, Len(UnknownWords),
                                     << >>, FALSE) >>
    /\ acmd' = NULL
    /\ pc' = "idle"
    /\ UNCHANGED << drv, db >>

\* sql_exec's async_command as calloc leaves it, with its first two fields set
NewCommand(statement) ==
  [ driver_data |-> "drv", statement |-> statement, dataset |-> NULL,
    term_count |-> 0, row_count |-> 0, floats |-> NULL, binaries |-> NULL,
    binaries_count |-> 0 ]

\* (mutant) the failure branch does not return: the task is created as well
SqlExecPrepareFailed_NoReturn ==
  \E s \in Statements, m \in ErrMsgs :
    /\ s.result /= SQLITE_OK
    /\ Enter(CMD_SQL_EXEC, s.sql)
    /\ db' = [db EXCEPT !.errmsg = m]
    /\ LET e == return_error(<< >>, m)
           a == Alloc(e.heap, "async_command", NewCommand(NULL))
       IN  /\ heap' = a.heap
           /\ acmd' = a.p
           /\ sent' = << driver_output_term(drv.port, e.heap[e.spec].data,
                                            e.terms_count, e.heap, FALSE) >>
    /\ pc' = "sql_exec_async"
    /\ UNCHANGED drv

\* sql_exec when sqlite3_prepare_v2 fails
SqlExecPrepareFailed ==
  \E s \in Statements, m \in ErrMsgs :
    /\ s.result /= SQLITE_OK
    /\ Enter(CMD_SQL_EXEC, s.sql)
    /\ db' = [db EXCEPT !.errmsg = m]
    /\ LET e == return_error(<< >>, m)
       IN  /\ heap' = e.heap
           /\ sent' = << driver_output_term(drv.port, e.heap[e.spec].data,
                                            e.terms_count, e.heap, FALSE) >>
    /\ acmd' = NULL
    /\ pc' = "idle"
    /\ UNCHANGED drv

\* sql_exec when the text compiles: the task is created
SqlExec ==
  \E s \in Statements :
    /\ s.result = SQLITE_OK
    /\ Enter(CMD_SQL_EXEC, s.sql)
    /\ LET st == IF s.stmt
                   THEN Alloc(<< >>, "statement", [sql |-> s.sql, cc |-> s.cc])
                   ELSE [heap |-> << >>, p |-> NULL]
           a  == Alloc(st.heap, "async_command", NewCommand(st.p))
       IN  /\ heap' = a.heap
           /\ acmd' = a.p
    /\ sent' = << >>
    /\ db' = [db EXCEPT !.errmsg = NotAnError]
    /\ pc' = "sql_exec_async"
    /\ UNCHANGED drv

(***************************************************************************)
(* sql_exec_async.  Its working state is the heap and its locals, carried  *)
(* together as st = [heap, loc].                                           *)
(***************************************************************************)
\* words ws stored at p[k0], p[k0 + 1], ...
StoreSeq(h, p, k0, ws) ==
  [h EXCEPT ![p].data =
     [i \in DOMAIN @ |->
        IF i - 1 >= k0 /\ i - 1 < k0 + Len(ws) THEN ws[i - k0] ELSE @[i]]]

\* term_count += n; dataset = realloc(dataset, ...); the n new slots assigned
AppendSlots(st, ws) ==
  LET tc == st.loc.term_count + Len(ws)
      r  == Realloc(st.heap, st.loc.dataset, tc, "dataset", FALSE)
  IN  [ heap |-> StoreSeq(r.heap, r.p, tc - Len(ws), ws),
        loc  |-> [st.loc EXCEPT !.term_count = tc, !.dataset = r.p] ]

\* sqlite3_column_count(statement); 0 for no statement
sqlite3_column_count(h, statement) ==
  IF statement = NULL THEN 0 ELSE h[statement].data.cc

\* sqlite3_sql(statement)
sqlite3_sql(h, statement) == h[statement].data.sql

\* the destination prefix: ERL_DRV_PORT, port
PortPrefix(st, port) ==
  AppendSlots(st, << Tag("ERL_DRV_PORT"), driver_mk_port(port) >>)

\* ERL_DRV_ATOM, name of column i, for every column
ColumnWords(cc) ==
  [j \in 1..(2 * cc) |->
     IF j % 2 = 1 THEN Tag("ERL_DRV_ATOM")
                  ELSE driver_mk_atom(ColumnName((j \div 2) - 1))]

\* (mutant) the header is counted one slot longer than it is written
ColumnHeader_Overcount(st, cc) ==
  LET base == st.loc.term_count
      tc   == base + 2 + cc * 2 + 1 + 2 + 2 + 2 + 1
      r    == Realloc(st.heap, st.loc.dataset, tc, "dataset", FALSE)
      h1   == StoreSeq(r.heap, r.p, base,
                       << Tag("ERL_DRV_ATOM"), driver_mk_atom("columns") >>)
      h2   == StoreSeq(h1, r.p, base + 2, ColumnWords(cc))
      h3   == StoreSeq(h2, r.p, base + 2 + cc * 2,
                       << Tag("ERL_DRV_NIL"),
                          Tag("ERL_DRV_LIST"), Num(cc + 1),
                          Tag("ERL_DRV_TUPLE"), Num(2),
                          Tag("ERL_DRV_ATOM"), driver_mk_atom("rows") >>)
  IN  [ heap |-> h3,
        loc  |-> [st.loc EXCEPT !.term_count = tc, !.dataset = r.p] ]

\* the column header: {columns, [Names]} and the atom rows
ColumnHeader(st, cc) ==
  LET base == st.loc.term_count
      tc   == base + 2 + cc * 2 + 1 + 2 + 2 + 2
      r    == Realloc(st.heap, st.loc.dataset, tc, "dataset", FALSE)
      h1   == StoreSeq(r.heap, r.p, base,
                       << Tag("ERL_DRV_ATOM"), driver_mk_atom("columns") >>)
      h2   == StoreSeq(h1, r.p, base + 2, ColumnWords(cc))
      h3   == StoreSeq(h2, r.p, base + 2 + cc * 2,
                       << Tag("ERL_DRV_NIL"),
                          Tag("ERL_DRV_LIST"), Num(cc + 1),
                          Tag("ERL_DRV_TUPLE"), Num(2),
                          Tag("ERL_DRV_ATOM"), driver_mk_atom("rows") >>)
  IN  [ heap |-> h3,
        loc  |-> [st.loc EXCEPT !.term_count = tc, !.dataset = r.p] ]

\* entry of sql_exec_async up to the first sqlite3_step
ExecBegin ==
  /\ pc = "sql_exec_async"
  /\ LET a   == heap[acmd].data
         cc  == sqlite3_column_count(heap, a.statement)
         l0  == [NoLocals EXCEPT !.term_count = a.term_count,
                                 !.row_count = a.row_count,
                                 !.column_count = cc]
         st1 == PortPrefix([heap |-> heap, loc |-> l0], drv.port)
         st2 == IF cc > 0 THEN ColumnHeader(st1, cc) ELSE st1
     IN  /\ heap' = st2.heap
         /\ loc' = st2.loc
  /\ pc' = "step"
  /\ UNCHANGED << drv, db, leaked, cmd, acmd, steps, sent, ncmds >>

\* one cell of the current row
IntegerCell(st, cell) ==
  AppendSlots(st, << Tag("ERL_DRV_INT"), IntW(sqlite3_column_int(cell.int)) >>)

FloatCell(st, cell, moved) ==
  LET fc == st.loc.float_count + 1
      r  == Realloc(st.heap, st.loc.floats, fc, "floats", moved)
      h1 == Store(r.heap, r.p, fc - 1, cell.double)
      s1 == [ heap |-> h1,
              loc  |-> [st.loc EXCEPT !.float_count = fc, !.floats = r.p] ]
  IN  AppendSlots(s1, << Tag("ERL_DRV_FLOAT"), FPtr(r.p, fc - 1) >>)

\* (mutant) the cell is copied as a C string: up to its first NUL byte
BinaryCell_CString(st, cell) ==
  LET nuls  == { i \in DOMAIN cell.bytes : cell.bytes[i] = 0 }
      bytes == IF nuls = {} THEN Len(cell.bytes)
               ELSE (CHOOSE i \in nuls : \A j \in nuls : i <= j) - 1
      bc == st.loc.binaries_count + 1
      r  == Realloc(st.heap, st.loc.binaries, bc, "binaries", FALSE)
      b  == Alloc(r.heap, "binary",
                  [orig_size |-> bytes, orig_bytes |-> SubSeq(cell.bytes, 1, bytes)])
      h1 == Store(b.heap, r.p, bc - 1, b.p)
      s1 == [ heap |-> h1,
              loc  |-> [st.loc EXCEPT !.binaries_count = bc, !.binaries = r.p] ]
  IN  AppendSlots(s1, << Tag("ERL_DRV_BINARY"), BPtr(b.p), Num(bytes), Num(0) >>)

BinaryCell(st, cell) ==
  LET bytes == Len(cell.bytes)
      bc == st.loc.binaries_count + 1
      r  == Realloc(st.heap, st.loc.binaries, bc, "binaries", FALSE)
      b  == Alloc(r.heap, "binary",
                  [orig_size |-> bytes, orig_bytes |-> SubSeq(cell.bytes, 1, bytes)])
      h1 == Store(b.heap, r.p, bc - 1, b.p)
      s1 == [ heap |-> h1,
              loc  |-> [st.loc EXCEPT !.binaries_count = bc, !.binaries = r.p] ]
  IN  AppendSlots(s1, << Tag("ERL_DRV_BINARY"), BPtr(b.p), Num(bytes), Num(0) >>)

\* (mutant) a null cell is given an atom of its own
NullCell_Atom(st) ==
  AppendSlots(st, << Tag("ERL_DRV_ATOM"), driver_mk_atom("null") >>)

NullCell(st) == st

EncodeCell(st, cell, moved) ==
  CASE cell.type = "SQLITE_INTEGER" -> IntegerCell(st, cell)
    [] cell.type = "SQLITE_FLOAT"   -> FloatCell(st, cell, moved)
    [] cell.type \in {"SQLITE_BLOB", "SQLITE_TEXT"} -> BinaryCell(st, cell)
    [] cell.type = "SQLITE_NULL"    -> NullCell(st)

\* the for loop over the columns i .. column_count - 1 of the row
RECURSIVE EncodeColumns(_, _, _, _)
EncodeColumns(st, row, moves, i) ==
  IF i >= st.loc.column_count THEN st
  ELSE EncodeColumns(EncodeCell(st, row[i + 1], moves[i + 1]), row, moves, i + 1)

\* the tuple header that closes a row, and row_count++
CloseRow(st) ==
  LET s1 == AppendSlots(st, << Tag("ERL_DRV_TUPLE"), Num(st.loc.column_count) >>)
  IN  [s1 EXCEPT !.loc.row_count = @ + 1]

\* sqlite3_step returns SQLITE_ROW: the body of the while loop
StepRow ==
  /\ pc = "step"
  /\ heap[acmd].data.statement /= NULL
  /\ loc.column_count > 0
  /\ (loc.row_count + 1) * loc.column_count <= MaxCells
  /\ \E row \in [1..loc.column_count -> Cells],
        moves \in [1..loc.column_count -> BOOLEAN] :
       LET st0 == [heap |-> heap, loc |-> [loc EXCEPT !.next_row = SQLITE_ROW]]
           st1 == EncodeColumns(st0, row, moves, 0)
           st2 == CloseRow(st1)
       IN  \* realloc can move only what a float cell makes it grow
           /\ \A i \in DOMAIN row : moves[i] => row[i].type = "SQLITE_FLOAT"
           /\ heap' = st2.heap
           /\ loc' = st2.loc
           /\ steps' = Append(steps, [code |-> SQLITE_ROW, row |-> row])
  /\ UNCHANGED << drv, db, leaked, pc, cmd, acmd, sent, ncmds >>

(***************************************************************************)
(* The end of stepping: the envelope, or the error reply.                  *)
(***************************************************************************)
ToLower(c) == IF c \in 65..90 THEN c + 32 ELSE c

\* (mutant) strstr: the letters are compared as they are
strcasestr_CaseSensitive(haystack, needle) ==
  \E k \in 0..(Len(haystack) - Len(needle)) :
    \A j \in 1..Len(needle) : haystack[k + j] = needle[j]

\* strcasestr(haystack, needle) /= NULL
strcasestr(haystack, needle) ==
  \E k \in 0..(Len(haystack) - Len(needle)) :
    \A j \in 1..Len(needle) : ToLower(haystack[k + j]) = ToLower(needle[j])

sqlite3_errmsg(d) == d.errmsg
sqlite3_last_insert_rowid(d) == d.last_insert_rowid

\* (mutant) the header and the rows are closed as a tuple, not as a list
RowsEnvelope_Tuple(st) ==
  LET s1 == AppendSlots(st, << Tag("ERL_DRV_NIL"), Tag("ERL_DRV_LIST"),
                               Num(st.loc.row_count + 1) >>)
      s2 == AppendSlots(s1, << Tag("ERL_DRV_TUPLE"), Num(2) >>)
  IN  AppendSlots(s2, << Tag("ERL_DRV_TUPLE"), Num(2) >>)

\* column_count > 0: the rows list is closed and paired with the header
RowsEnvelope(st) ==
  LET s1 == AppendSlots(st, << Tag("ERL_DRV_NIL"), Tag("ERL_DRV_LIST"),
                               Num(st.loc.row_count + 1) >>)
      s2 == AppendSlots(s1, << Tag("ERL_DRV_TUPLE"), Num(2) >>)
  IN  AppendSlots(s2, << Tag("ERL_DRV_NIL"), Tag("ERL_DRV_LIST"), Num(3) >>)

\* no columns and the text contains INSERT
InsertEnvelope(st, rowid) ==
  AppendSlots(st, << Tag("ERL_DRV_ATOM"), driver_mk_atom("id"),
                     Tag("ERL_DRV_INT"), IntW(ToTermData(rowid)),
                     Tag("ERL_DRV_TUPLE"), Num(2) >>)

\* (mutant) the row count is written where the step result belongs
StatusEnvelope_RowCount(st, next_row) ==
  AppendSlots(st, << Tag("ERL_DRV_ATOM"), driver_mk_atom("ok"),
                     Tag("ERL_DRV_INT"), IntW(FromInt(st.loc.row_count)),
                     Tag("ERL_DRV_TUPLE"), Num(2) >>)

\* no columns otherwise
StatusEnvelope(st, next_row) ==
  AppendSlots(st, << Tag("ERL_DRV_ATOM"), driver_mk_atom("ok"),
                     Tag("ERL_DRV_INT"), IntW(FromInt(next_row)),
                     Tag("ERL_DRV_TUPLE"), Num(2) >>)

\* the outermost {Port, Body}
OuterTuple(st) == AppendSlots(st, << Tag("ERL_DRV_TUPLE"), Num(2) >>)

Envelope(st, d) ==
  OuterTuple(
    IF st.loc.column_count > 0 THEN RowsEnvelope(st)
    ELSE IF strcasestr(sqlite3_sql(st.heap, st.heap[acmd].data.statement),
                       SqlInsert)
      THEN InsertEnvelope(st, sqlite3_last_insert_rowid(d))
      ELSE StatusEnvelope(st, st.loc.next_row))

\* (mutant) the busy result is reported with the engine's message
StepErrorMessage_Engine(next_row, d) == sqlite3_errmsg(d)

\* the message of the error reply for a step result other than SQLITE_DONE
StepErrorMessage(next_row, d) ==
  IF next_row = SQLITE_BUSY THEN BusyMsg ELSE sqlite3_errmsg(d)

\* sqlite3_step returns something other than SQLITE_ROW: the loop ends and
\* sql_exec_async runs to its return
StepEnd ==
  /\ pc = "step"
  /\ \E code \in EndCodes \cup {SQLITE_MISUSE}, m \in ErrMsgs, r \in RowIds :
       LET a    == heap[acmd].data
           ins  == a.statement /= NULL /\ sqlite3_sql(heap, a.statement) = SqlInsert
           \* what the call does to the database: it records the failure, a
           \* completed INSERT sets the rowid; no statement, nothing recorded
           d1   == IF code = SQLITE_MISUSE THEN db
                   ELSE IF code /= SQLITE_DONE THEN [db EXCEPT !.errmsg = m]
                   ELSE IF ins THEN [db EXCEPT !.last_insert_rowid = r]
                   ELSE db
           l1   == [loc EXCEPT !.next_row = code]
           h1   == [heap EXCEPT ![acmd].data =
                      [@ EXCEPT !.row_count = l1.row_count,
                                !.floats = l1.floats,
                                !.binaries = l1.binaries,
                                !.binaries_count = l1.binaries_count]]
       IN  /\ (a.statement = NULL) <=> (code = SQLITE_MISUSE)
           \* one choice of the inputs this result does not read
           /\ code \in {SQLITE_DONE, SQLITE_MISUSE} => m = CHOOSE x \in ErrMsgs : TRUE
           /\ ~(code = SQLITE_DONE /\ ins) => r = CHOOSE x \in RowIds : TRUE
           /\ db' = d1
           /\ IF code /= SQLITE_DONE
                THEN LET e == return_error(h1, StepErrorMessage(code, d1))
                     IN  /\ heap' = [e.heap EXCEPT ![acmd].data =
                                       [@ EXCEPT !.dataset = e.spec,
                                                 !.term_count = e.terms_count]]
                         /\ loc' = l1
                ELSE LET s1 == Envelope([heap |-> h1, loc |-> l1], d1)
                     IN  /\ heap' = [s1.heap EXCEPT ![acmd].data =
                                       [@ EXCEPT !.dataset = s1.loc.dataset,
                                                 !.term_count = s1.loc.term_count]]
                         /\ loc' = s1.loc
           /\ steps' = Append(steps, [code |-> code, row |-> << >>])
  /\ pc' = "ready_async"
  /\ UNCHANGED << drv, leaked, cmd, acmd, sent, ncmds >>

(***************************************************************************)
(* ready_async and sql_free_async.                                         *)
(***************************************************************************)
\* (mutant) the buffer is freed before it is passed to driver_output_term
ReadyAsync_FreeFirst ==
  /\ pc = "ready_async"
  /\ \E stale \in BOOLEAN :
       LET a == heap[acmd].data
       IN  /\ heap' = Free(heap, a.dataset)
           /\ sent' = Append(sent, driver_output_term(drv.port, heap[a.dataset].data,
                                                     a.term_count, heap, stale))
  /\ pc' = "sql_free_async"
  /\ UNCHANGED << drv, db, leaked, cmd, acmd, loc, steps, ncmds >>

\* ready_async up to the call of sql_free_async
ReadyAsync ==
  /\ pc = "ready_async"
  /\ \E stale \in BOOLEAN :
       LET a == heap[acmd].data
       IN  sent' = Append(sent, driver_output_term(drv.port, heap[a.dataset].data,
                                                   a.term_count, heap, stale))
  /\ pc' = "sql_free_async"
  /\ UNCHANGED << drv, db, heap, leaked, cmd, acmd, loc, steps, ncmds >>

\* driver_free_binary(binaries[i]) for i .. binaries_count - 1
RECURSIVE FreeBinaries(_, _, _, _)
FreeBinaries(h, binaries, count, i) ==
  IF i >= count THEN h
  ELSE FreeBinaries(Release(h, h[binaries].data[i + 1]), binaries, count, i + 1)

\* (mutant) the task structure itself is not freed
FreeTask_KeepsTask(h, p) ==
  LET a  == h[p].data
      h1 == Free(h, a.dataset)
      h2 == IF a.floats /= NULL THEN Free(h1, a.floats) ELSE h1
      h3 == FreeBinaries(h2, a.binaries, a.binaries_count, 0)
      h4 == IF a.binaries /= NULL THEN Free(h3, a.binaries) ELSE h3
  IN  IF a.statement /= NULL THEN Release(h4, a.statement) ELSE h4

FreeTask(h, p) ==
  LET a  == h[p].data
      h1 == Free(h, a.dataset)
      h2 == IF a.floats /= NULL THEN Free(h1, a.floats) ELSE h1
      h3 == FreeBinaries(h2, a.binaries, a.binaries_count, 0)
      h4 == IF a.binaries /= NULL THEN Free(h3, a.binaries) ELSE h3
      h5 == IF a.statement /= NULL THEN Release(h4, a.statement) ELSE h4
  IN  Free(h5, p)

\* sql_free_async, after which ready_async, sql_exec and control return
SqlFreeAsync ==
  /\ pc = "sql_free_async"
  /\ heap' = FreeTask(heap, acmd)
  /\ drv' = [drv EXCEPT !.async_handle = [set |-> TRUE, v |-> 0]]
  /\ acmd' = NULL
  /\ pc' = "idle"
  /\ UNCHANGED << db, leaked, cmd, loc, steps, sent, ncmds >>

Next ==
  \/ Unknown
  \/ SqlExecPrepareFailed
  \/ SqlExec
  \/ ExecBegin
  \/ StepRow
  \/ StepEnd
  \/ ReadyAsync
  \/ SqlFreeAsync

Spec == Init /\ [][Next]_vars

(***************************************************************************)
(* Reading a buffer as the emulator does: left to right with a stack.  A   *)
(* value pushes one term, ERL_DRV_TUPLE n pops n terms and pushes the      *)
(* tuple, ERL_DRV_LIST n pops n terms, the last of them the tail, and      *)
(* pushes the list.  The reading fails when a header asks for more terms   *)
(* than the stack holds or a word is not what its tag announces.           *)
(***************************************************************************)
TAtom(n)    == [t |-> "atom", name |-> n]
TPort(p)    == [t |-> "port", port |-> p]
TInt(v)     == [t |-> "int", limbs |-> v]
TFloat(v)   == [t |-> "float", double |-> v]
TBin(b)     == [t |-> "binary", bytes |-> b]
TStr(s, n)  == [t |-> "string", s |-> s, len |-> n]
TTuple(els) == [t |-> "tuple", els |-> els]
TList(els)  == [t |-> "list", els |-> els]
TCons(els, tail) == [t |-> "cons", head |-> els, tail |-> tail]

Bad(stack) == [ok |-> FALSE, stack |-> stack]

Has(ws, i, kind) == i <= Len(ws) /\ ws[i].w = kind

Top(stack, n) == SubSeq(stack, Len(stack) - n + 1, Len(stack))
Pop(stack, n) == SubSeq(stack, 1, Len(stack) - n)

MkList(els) ==
  LET n    == Len(els)
      tail == els[n]
      head == SubSeq(els, 1, n - 1)
  IN  IF tail.t = "list" THEN TList(head \o tail.els) ELSE TCons(head, tail)

RECURSIVE Reduce(_, _, _)
Reduce(ws, i, stack) ==
  IF i > Len(ws) THEN [ok |-> TRUE, stack |-> stack]
  ELSE IF ws[i].w /= "tag" THEN Bad(stack)
  ELSE LET tag == ws[i].tag IN
    CASE tag = "ERL_DRV_NIL" -> Reduce(ws, i + 1, Append(stack, TList(<< >>)))
      [] tag = "ERL_DRV_ATOM" ->
           IF Has(ws, i + 1, "atom")
             THEN Reduce(ws, i + 2, Append(stack, TAtom(ws[i + 1].name)))
             ELSE Bad(stack)
      [] tag = "ERL_DRV_PORT" ->
           IF Has(ws, i + 1, "port")
             THEN Reduce(ws, i + 2, Append(stack, TPort(ws[i + 1].port)))
             ELSE Bad(stack)
      [] tag = "ERL_DRV_INT" ->
           IF Has(ws, i + 1, "sint")
             THEN Reduce(ws, i + 2, Append(stack, TInt(ws[i + 1].limbs)))
             ELSE Bad(stack)
      [] tag = "ERL_DRV_FLOAT" ->
           IF Has(ws, i + 1, "fval")
             THEN Reduce(ws, i + 2, Append(stack, TFloat(ws[i + 1].double)))
             ELSE Bad(stack)
      [] tag = "ERL_DRV_STRING" ->
           IF Has(ws, i + 1, "cstr") /\ Has(ws, i + 2, "num")
             THEN Reduce(ws, i + 3,
                         Append(stack, TStr(ws[i + 1].s, ws[i + 2].n)))
             ELSE Bad(stack)
      [] tag = "ERL_DRV_BINARY" ->
           IF /\ Has(ws, i + 1, "bval") /\ Has(ws, i + 2, "num")
              /\ Has(ws, i + 3, "num")
              /\ ws[i + 3].n + ws[i + 2].n <= Len(ws[i + 1].bytes)
             THEN Reduce(ws, i + 4,
                         Append(stack, TBin(SubSeq(ws[i + 1].bytes, ws[i + 3].n + 1,
                                                   ws[i + 3].n + ws[i + 2].n))))
             ELSE Bad(stack)
      [] tag = "ERL_DRV_TUPLE" ->
           IF Has(ws, i + 1, "num") /\ ws[i + 1].n <= Len(stack)
             THEN Reduce(ws, i + 2,
                         Append(Pop(stack, ws[i + 1].n),
                                TTuple(Top(stack, ws[i + 1].n))))
             ELSE Bad(stack)
      [] tag = "ERL_DRV_LIST" ->
           IF Has(ws, i + 1, "num") /\ ws[i + 1].n >= 1 /\ ws[i + 1].n <= Len(stack)
             THEN Reduce(ws, i + 2,
                         Append(Pop(stack, ws[i + 1].n),
                                MkList(Top(stack, ws[i + 1].n))))
             ELSE Bad(stack)
      [] OTHER -> Bad(stack)

Decode(ws) == Reduce(ws, 1, << >>)

WellFormed(ws) == Decode(ws).ok /\ Len(Decode(ws).stack) = 1

\* the term a well-formed buffer stands for
Term(ws) == Decode(ws).stack[1]

(***************************************************************************)
(* Vocabulary of the properties.                                           *)
(***************************************************************************)
\* sql_exec_async has returned for the task of the current command
SteppingEnded == steps /= << >> /\ pc \in {"ready_async", "sql_free_async", "idle"}

\* the result that ended the stepping
EndCode == steps[Len(steps)].code

\* the rows sqlite3_step returned, in order
RowSteps == SelectSeq(steps, LAMBDA x : x.code = SQLITE_ROW)

\* ready_async has handed the task's buffer to the transport
TaskDelivered == SteppingEnded /\ pc \in {"sql_free_async", "idle"}

\* control has returned from the current command
Returned == pc = "idle" /\ ncmds > 0

HasNull(row) == \E i \in DOMAIN row : row[i].type = "SQLITE_NULL"
NoNullCells == \A k \in DOMAIN RowSteps : ~HasNull(RowSteps[k].row)

\* the sample texts that contain INSERT in some letter case
ContainsInsert(sql) == sql \in { SqlInsert, SqlInsMix }

\* the sample texts sqlite3_prepare_v2 rejects
PrepareFails(sql) == \E s \in Statements : s.sql = sql /\ s.result /= SQLITE_OK

FitsInt32(v) ==
  \/ v[3] = 0 /\ v[4] = 0 /\ v[2] < 2^15
  \/ v[3] = 2^16 - 1 /\ v[4] = 2^16 - 1 /\ v[2] >= 2^15

\* a decoded term stands for a cell
CellMatches(term, cell) ==
  CASE cell.type = "SQLITE_INTEGER" ->
         term.t = "int" /\ (FitsInt32(cell.int) => term = TInt(cell.int))
    [] cell.type = "SQLITE_FLOAT" -> term.t = "float"
    [] cell.type \in {"SQLITE_TEXT", "SQLITE_BLOB"} -> term = TBin(cell.bytes)
    [] OTHER -> FALSE

RowMatches(term, row) ==
  /\ term.t = "tuple"
  /\ Len(term.els) = Len(row)
  /\ \A i \in DOMAIN row : CellMatches(term.els[i], row[i])

ColumnAtoms(cc) == [i \in 1..cc |-> TAtom(ColumnName(i - 1))]

\* {columns, [Names]} and {rows, [Rows]} with one matching tuple per row
IsColumnsPair(term, cc) ==
  term = TTuple(<< TAtom("columns"), TList(ColumnAtoms(cc)) >>)

IsRowsPair(term, rows) ==
  /\ term.t = "tuple"
  /\ Len(term.els) = 2
  /\ term.els[1] = TAtom("rows")
  /\ term.els[2].t = "list"
  /\ Len(term.els[2].els) = Len(rows)
  /\ \A k \in DOMAIN rows : RowMatches(term.els[2].els[k], rows[k].row)

IsPair(term) == term.t = "tuple" /\ Len(term.els) = 2

\* the last n words of a buffer
LastWords(ws, n) == SubSeq(ws, Len(ws) - n + 1, Len(ws))

HasRowsList(body, n) ==
  /\ body.t \in {"list", "tuple"}
  /\ \E i \in DOMAIN body.els :
       LET e == body.els[i] IN
       /\ e.t = "tuple"
       /\ Len(e.els) = 2
       /\ e.els[1] = TAtom("rows")
       /\ e.els[2].t = "list"
       /\ Len(e.els[2].els) = n
       /\ \A k \in DOMAIN e.els[2].els : e.els[2].els[k].t = "tuple"

(***************************************************************************)
(* C2.  For a statement with columns that ends with SQLITE_DONE, whatever  *)
(* the cells, the rows list of the delivered reply holds as many row       *)
(* tuples as sqlite3_step returned rows.                                   *)
(***************************************************************************)
C2_RowCount ==
  (TaskDelivered /\ EndCode = SQLITE_DONE /\ loc.column_count > 0) =>
    /\ WellFormed(sent[1].words)
    /\ IsPair(Term(sent[1].words))
    /\ HasRowsList(Term(sent[1].words).els[2], Len(RowSteps))

(***************************************************************************)
(* C3.  Every buffer handed to the transport reduces without a header      *)
(* asking for more terms than are on the stack, and leaves one term.       *)
(***************************************************************************)
C3_BufferReduces ==
  \A i \in DOMAIN sent : WellFormed(sent[i].words)

CellSlots(cell) ==
  CASE cell.type \in {"SQLITE_INTEGER", "SQLITE_FLOAT"} -> 2
    [] cell.type \in {"SQLITE_TEXT", "SQLITE_BLOB"} -> 4
    [] OTHER -> 0

RECURSIVE SumSlots(_, _)
SumSlots(row, i) == IF i > Len(row) THEN 0 ELSE CellSlots(row[i]) + SumSlots(row, i + 1)

\* slots of the rows k .. of the steps
RECURSIVE RowsSlots(_, _)
RowsSlots(rows, k) ==
  IF k > Len(rows) THEN 0 ELSE SumSlots(rows[k].row, 1) + 2 + RowsSlots(rows, k + 1)

CountCells(rows, types) ==
  Cardinality({ << k, i >> \in (DOMAIN rows) \X (1..MaxCols + 1) :
                  i <= Len(rows[k].row) /\ rows[k].row[i].type \in types })

\* the slots before the first row: the port and, with columns, the header
HeadSlots(cc) == 2 + (IF cc > 0 THEN 2 * cc + 9 ELSE 0)

\* where the row k ends in the buffer
RowEnd(rows, cc, k) == HeadSlots(cc) + RowsSlots(SubSeq(rows, 1, k), 1)

(***************************************************************************)
(* C4.  While the rows are encoded, each row returned so far occupies the  *)
(* slots of its non-null cells (2 for an integer or a float, 4 for a text  *)
(* or blob, none for a null) followed by ERL_DRV_TUPLE, column_count; the  *)
(* float pool has one entry per float cell and the blob pool one entry per *)
(* text or blob cell, so a null cell adds no slot and no pool entry.       *)
(***************************************************************************)
C4_RowArity ==
  (pc = "step") =>
    LET ws == heap[loc.dataset].data
        cc == loc.column_count
    IN  /\ loc.term_count = RowEnd(RowSteps, cc, Len(RowSteps))
        /\ Len(ws) = loc.term_count
        /\ \A k \in DOMAIN RowSteps :
             SubSeq(ws, RowEnd(RowSteps, cc, k) - 1, RowEnd(RowSteps, cc, k))
               = << Tag("ERL_DRV_TUPLE"), Num(cc) >>
        /\ loc.float_count = CountCells(RowSteps, {"SQLITE_FLOAT"})
        /\ loc.binaries_count = CountCells(RowSteps, {"SQLITE_TEXT", "SQLITE_BLOB"})
        /\ Cardinality({ b \in DOMAIN heap : heap[b].kind = "binary" })
             = loc.binaries_count

\* a row of two cells, one of them null, has been closed
C4_Witness ==
  /\ pc = "step"
  /\ loc.column_count = 2
  /\ Len(RowSteps) = 1
  /\ HasNull(RowSteps[1].row)
  /\ \E i \in 1..2 : RowSteps[1].row[i].type = "SQLITE_INTEGER"
  /\ LastWords(heap[loc.dataset].data, 4)
       = << Tag("ERL_DRV_INT"), IntW(I64_42), Tag("ERL_DRV_TUPLE"), Num(2) >>

(***************************************************************************)
(* C5.  As stated: a statement without columns whose text contains INSERT  *)
(* and that ends with SQLITE_DONE is answered {Dest, {ok, {id, RowId}}}.   *)
(***************************************************************************)
C5_Original ==
  (TaskDelivered /\ EndCode = SQLITE_DONE /\ loc.column_count = 0
     /\ ContainsInsert(cmd.buf)) =>
    /\ WellFormed(sent[1].words)
    /\ Term(sent[1].words) =
         TTuple(<< TPort(drv.port),
                   TTuple(<< TAtom("ok"),
                             TTuple(<< TAtom("id"),
                                       TInt(db.last_insert_rowid) >>) >>) >>)

\* C5, amended: a statement without columns whose text contains INSERT in any
\* letter case and that ends with SQLITE_DONE is answered {Dest, {id, RowId}},
\* without an ok tag, RowId being the engine's last insert rowid after stepping.
C5_InsertReply ==
  (TaskDelivered /\ EndCode = SQLITE_DONE /\ loc.column_count = 0
     /\ ContainsInsert(cmd.buf)) =>
    /\ Len(sent) = 1
    /\ WellFormed(sent[1].words)
    /\ Term(sent[1].words) =
         TTuple(<< TPort(drv.port),
                   TTuple(<< TAtom("id"), TInt(db.last_insert_rowid) >>) >>)

\* INSERT has been answered with a rowid beyond 32 bits
C5_Witness ==
  /\ TaskDelivered /\ EndCode = SQLITE_DONE
  /\ cmd.buf = SqlInsert
  /\ db.last_insert_rowid = << 7, 0, 1, 0 >>
  /\ Term(sent[1].words) =
       TTuple(<< TPort(Port), TTuple(<< TAtom("id"), TInt(<< 7, 0, 1, 0 >>) >>) >>)

(***************************************************************************)
(* C6.  As stated: a statement without columns whose text does not contain *)
(* INSERT and that ends with SQLITE_DONE is answered                       *)
(* {Dest, {ok, {status, Code}}}.                                           *)
(***************************************************************************)
C6_Original ==
  (TaskDelivered /\ EndCode = SQLITE_DONE /\ loc.column_count = 0
     /\ ~ContainsInsert(cmd.buf)) =>
    /\ WellFormed(sent[1].words)
    /\ Term(sent[1].words) =
         TTuple(<< TPort(drv.port),
                   TTuple(<< TAtom("ok"),
                             TTuple(<< TAtom("status"),
                                       TInt(FromInt(EndCode)) >>) >>) >>)

\* C6, amended: a statement without columns whose text does not contain INSERT
\* and that ends with SQLITE_DONE is answered {Dest, {ok, Code}}, Code being the
\* final step code, with no status tag around it.
C6_StatusReply ==
  (TaskDelivered /\ EndCode = SQLITE_DONE /\ loc.column_count = 0
     /\ ~ContainsInsert(cmd.buf)) =>
    /\ Len(sent) = 1
    /\ WellFormed(sent[1].words)
    /\ Term(sent[1].words) =
         TTuple(<< TPort(drv.port),
                   TTuple(<< TAtom("ok"), TInt(FromInt(EndCode)) >>) >>)

\* CREATE has been answered {Dest, {ok, 101}}
C6_Witness ==
  /\ TaskDelivered /\ EndCode = SQLITE_DONE
  /\ cmd.buf = SqlCreate
  /\ Term(sent[1].words) =
       TTuple(<< TPort(Port), TTuple(<< TAtom("ok"), TInt(<< 101, 0, 0, 0 >>) >>) >>)

(***************************************************************************)
(* C7.  When stepping ends with a result other than SQLITE_DONE, after any *)
(* number of rows and for any column count, the one reply of the task is   *)
(* exactly {error, Msg}, with the fixed message for SQLITE_BUSY and the    *)
(* engine's message otherwise, so it holds no row and no column header;    *)
(* and sqlite3_step is never called after a result other than SQLITE_ROW.  *)
(***************************************************************************)
C7_StepErrorReply ==
  /\ \A i \in 1..(Len(steps) - 1) : steps[i].code = SQLITE_ROW
  /\ (TaskDelivered /\ EndCode /= SQLITE_DONE) =>
       LET msg == IF EndCode = SQLITE_BUSY THEN "SQLite3 database is busy"
                  ELSE db.errmsg
       IN  /\ Len(sent) = 1
           /\ WellFormed(sent[1].words)
           /\ Term(sent[1].words) = TTuple(<< TAtom("error"), TStr(msg, Len(msg)) >>)

\* a busy result after a row of a statement with columns
C7_Witness ==
  /\ TaskDelivered /\ EndCode = SQLITE_BUSY
  /\ loc.column_count > 0
  /\ Len(RowSteps) > 0
  /\ Term(sent[1].words) =
       TTuple(<< TAtom("error"), TStr("SQLite3 database is busy", 24) >>)

TaskExisted == \E b \in DOMAIN heap : heap[b].kind = "async_command"

(***************************************************************************)
(* C8.  When sqlite3_prepare_v2 fails, sql_exec outputs exactly one reply, *)
(* {error, Msg} with the engine's message, creates no async_command and    *)
(* runs neither sql_exec_async nor ready_async.                            *)
(***************************************************************************)
C8_PrepareFailure ==
  (cmd.command = CMD_SQL_EXEC /\ PrepareFails(cmd.buf)) =>
    /\ pc = "idle"
    /\ acmd = NULL
    /\ ~TaskExisted
    /\ steps = << >>
    /\ loc = NoLocals
    /\ Len(sent) = 1
    /\ WellFormed(sent[1].words)
    /\ Term(sent[1].words) =
         TTuple(<< TAtom("error"), TStr(db.errmsg, Len(db.errmsg)) >>)

\* SELEC has been answered with the syntax error
C8_Witness ==
  /\ Returned
  /\ cmd = [command |-> CMD_SQL_EXEC, buf |-> SqlSelec]
  /\ Len(sent) = 1
  /\ Term(sent[1].words) = TTuple(<< TAtom("error"), TStr("syntax error", 12) >>)

(***************************************************************************)
(* C9.  When sqlite3_prepare_v2 fails, nothing allocated while the command *)
(* was handled is still allocated when sql_exec returns.                   *)
(***************************************************************************)
C9_PrepareFailureReleasesAll ==
  (Returned /\ cmd.command = CMD_SQL_EXEC /\ PrepareFails(cmd.buf)) =>
    LiveCount(heap) = 0

(***************************************************************************)
(* C10.  Once a task is freed, every block allocated for it (statement,    *)
(* float pool, blob entries, blob array, term buffers, the task itself)    *)
(* has been released exactly once, whichever way the stepping ended.       *)
(***************************************************************************)
C10_ReleasedExactlyOnce ==
  (Returned /\ TaskExisted) =>
    \A b \in DOMAIN heap : ~heap[b].live /\ heap[b].frees = 1

(***************************************************************************)
(* C11.  Whatever the command and whatever prepare and step answer, when   *)
(* control returns exactly one term has been output to the port: one       *)
(* buffer was handed to driver_output_term and a term can be built of it.  *)
(***************************************************************************)
C11_OneReply ==
  Returned => Len(sent) = 1 /\ WellFormed(sent[1].words)

CellStart(rows, cc, k, i) ==
  RowEnd(rows, cc, k - 1) + SumSlots(SubSeq(rows[k].row, 1, i - 1), 1)

\* the cells of the rows returned so far, as (row, column) pairs
CellsOf(rows, types) ==
  { c \in (DOMAIN rows) \X (1..MaxCols + 1) :
      c[2] <= Len(rows[c[1]].row) /\ rows[c[1]].row[c[2]].type \in types }

(***************************************************************************)
(* C13.  The slot of every integer cell holds the 64-bit value the engine  *)
(* reports, also when the value is outside the signed 32-bit range.        *)
(***************************************************************************)
C13_IntegerFullWidth ==
  (pc = "step") =>
    \A c \in CellsOf(RowSteps, {"SQLITE_INTEGER"}) :
      LET at == CellStart(RowSteps, loc.column_count, c[1], c[2])
      IN  SubSeq(heap[loc.dataset].data, at + 1, at + 2)
            = << Tag("ERL_DRV_INT"), IntW(RowSteps[c[1]].row[c[2]].int) >>

(***************************************************************************)
(* C14.  When the buffer is handed to the transport, every float slot in   *)
(* it references the storage the float pool has at that moment: the block  *)
(* the task's floats field names, still allocated.                         *)
(***************************************************************************)
C14_FloatSlotsCurrent ==
  (pc = "ready_async") =>
    LET a  == heap[acmd].data
        ws == heap[a.dataset].data
    IN  \A i \in 1..a.term_count :
          ws[i].w = "fptr" =>
            /\ ws[i].blk = a.floats
            /\ heap[ws[i].blk].live
            /\ ws[i].idx < Len(heap[a.floats].data)

\* the Execution Tasks that exist: the allocated async_command blocks
TasksInFlight ==
  { b \in DOMAIN heap : heap[b].kind = "async_command" /\ heap[b].live }

(***************************************************************************)
(* C15.  At most one Execution Task exists at any time.  While a command   *)
(* that created one runs, the task is the one sql_exec holds; when control *)
(* has returned, no task exists, and the task the command created has been *)
(* handed to the transport once and freed once.                            *)
(***************************************************************************)
C15_OneTaskInFlight ==
  /\ Cardinality(TasksInFlight) <= 1
  /\ pc /= "idle" => TasksInFlight = {acmd}
  /\ pc = "idle" =>
       /\ TasksInFlight = {}
       /\ acmd = NULL
       /\ \A b \in DOMAIN heap :
            heap[b].kind = "async_command" =>
              heap[b].frees = 1 /\ Len(sent) = 1

\* a second command's task is in flight after the first command's task was
\* freed
C15_Witness ==
  /\ ncmds = 2
  /\ pc = "step"
  /\ drv.async_handle.set
  /\ TasksInFlight = {acmd}
  /\ leaked = 0

\* what the task structure p names: its buffer, its pools with the blob
\* pool's entries, and its statement
TaskResources(h, p) ==
  LET a == h[p].data
  IN  ({ a.dataset, a.floats, a.binaries, a.statement } \ { NULL })
        \cup { h[a.binaries].data[i] : i \in 1..a.binaries_count }

\* the blocks a step releases
ReleasedBy(h, h2) ==
  { b \in DOMAIN h : h[b].live /\ b \in DOMAIN h2 /\ ~h2[b].live }

\* the float pool's storage is replaced by realloc: the pool goes on in the
\* new block
PoolMoved(b) ==
  /\ heap[b].kind = "floats"
  /\ b = loc.floats
  /\ loc'.floats /= b
  /\ heap'[loc'.floats].live
  /\ heap'[loc'.floats].kind = "floats"

BlobCells == CellsOf(RowSteps, {"SQLITE_TEXT", "SQLITE_BLOB"})

BlobRank(c) ==
  Cardinality({ d \in BlobCells : d[1] < c[1] \/ (d[1] = c[1] /\ d[2] <= c[2]) })

(***************************************************************************)
(* C17.  While the rows are encoded, the blob pool has exactly one entry   *)
(* per text or blob cell read so far, in the order the cells were read.    *)
(* The entry of a cell of N bytes has size N and the cell's bytes (N = 0   *)
(* and NUL bytes included), no two cells share an entry, and the cell's    *)
(* four slots are ERL_DRV_BINARY, the entry, N, 0.  As this holds after    *)
(* every later cell too, the entries of earlier cells stay as they were.   *)
(***************************************************************************)
C17_BlobEntry ==
  (pc = "step") =>
    /\ loc.binaries_count = Cardinality(BlobCells)
    /\ Cardinality({ b \in DOMAIN heap : heap[b].kind = "binary" })
         = Cardinality(BlobCells)
    /\ BlobCells /= {} => Len(heap[loc.binaries].data) = loc.binaries_count
    /\ \A c \in BlobCells :
         LET cell == RowSteps[c[1]].row[c[2]]
             e    == heap[loc.binaries].data[BlobRank(c)]
             at   == CellStart(RowSteps, loc.column_count, c[1], c[2])
         IN  /\ heap[e].kind = "binary" /\ heap[e].live
             /\ heap[e].data.orig_size = Len(cell.bytes)
             /\ heap[e].data.orig_bytes = cell.bytes
             /\ SubSeq(heap[loc.dataset].data, at + 1, at + 4)
                  = << Tag("ERL_DRV_BINARY"), BPtr(e),
                       Num(Len(cell.bytes)), Num(0) >>
             /\ \A d \in BlobCells \ {c} :
                  heap[loc.binaries].data[BlobRank(d)] /= e

\* an empty cell and a cell with a NUL byte have both been encoded
C17_Witness ==
  /\ pc = "step"
  /\ \E c, d \in BlobCells :
       /\ BlobRank(c) < BlobRank(d)
       /\ RowSteps[c[1]].row[c[2]].bytes = << 65, 0 >>
       /\ RowSteps[d[1]].row[d[2]].bytes = << >>

\* every one of the first n words of ws has been assigned
AllWritten(ws, n) ==
  /\ n <= Len(ws)
  /\ \A i \in 1..n : ws[i] /= Uninit

\* the slots of the envelope that closes a successful buffer
EnvelopeSlots(cc) == (IF cc > 0 THEN 3 + 2 + 3 ELSE 6) + 2

(***************************************************************************)
(* C18.  In sql_exec_async term_count is the number of slots written: the  *)
(* buffer has term_count words, each assigned, after the prefix (2), the   *)
(* header (2 * column_count + 9 for column_count > 0), every row and the   *)
(* envelope; on the success path the count stored in the task and passed   *)
(* to the transport is that number, and no unassigned word is handed over. *)
(***************************************************************************)
C18_TermCountWritten ==
  /\ pc = "step" =>
       /\ Len(heap[loc.dataset].data) = loc.term_count
       /\ AllWritten(heap[loc.dataset].data, loc.term_count)
       /\ loc.term_count = RowEnd(RowSteps, loc.column_count, Len(RowSteps))
       /\ RowSteps = << >> =>
            loc.term_count = 2 + (IF loc.column_count > 0
                                    THEN 2 * loc.column_count + 9 ELSE 0)
  /\ (pc \in {"ready_async", "sql_free_async"} /\ EndCode = SQLITE_DONE) =>
       LET a == heap[acmd].data
       IN  /\ a.dataset = loc.dataset /\ a.term_count = loc.term_count
           /\ Len(heap[a.dataset].data) = a.term_count
           /\ AllWritten(heap[a.dataset].data, a.term_count)
           /\ a.term_count = RowEnd(RowSteps, loc.column_count, Len(RowSteps))
                               + EnvelopeSlots(loc.column_count)
           /\ pc = "sql_free_async" =>
                /\ sent[1].n = a.term_count
                /\ AllWritten(sent[1].words, sent[1].n)

\* a buffer with a header, rows of every cell width and the envelope has
\* been handed over
C18_Witness ==
  /\ pc = "sql_free_async"
  /\ EndCode = SQLITE_DONE
  /\ loc.column_count = 2
  /\ Len(RowSteps) >= 1
  /\ CountCells(RowSteps, {"SQLITE_TEXT", "SQLITE_BLOB"}) >= 1
  /\ CountCells(RowSteps, {"SQLITE_INTEGER", "SQLITE_FLOAT"}) >= 1
  /\ sent[1].n = heap[acmd].data.term_count
  /\ sent[1].n > 2 * loc.column_count + 9 + 2

====
